---- MODULE Spec2Model ----
(***************************************************************************)
(* Model of nansat/mappers/mapper_meris_l1.py: the constructor of the      *)
(* MERIS Level-1 mapper, Mapper.__init__, taken statement by statement.    *)
(*                                                                         *)
(* Python dictionaries are functions from key strings to values, so that   *)
(* "key in d" is  key \in DOMAIN d  and  d[key] = v  is  (key :> v) @@ d.  *)
(* Python lists are sequences (1-based here, 0-based in the source).       *)
(* Python strings that are sliced (the product identifier) are sequences   *)
(* of one-character strings.  Floats are kept in tenths (30 stands for     *)
(* 3.0), which is enough to tell str(x) from x.                            *)
(*                                                                         *)
(* The collaborators VRT and Envisat are outside the file: a call to one   *)
(* of them either returns (with a value drawn from a small set) or raises. *)
(***************************************************************************)
EXTENDS Integers, Sequences, FiniteSets, TLC

VARIABLES
  pc,          \* position inside Mapper.__init__
  args,        \* the arguments of the call: fileName, gdalMetadata, geolocation, zoomSize, step
  product,     \* self.product, set by Envisat.__init__
  metaDict,    \* the local list of band descriptors
  scales,      \* the local list returned by read_scaling_gads
  adsVRTs,     \* self.subVRTs['adsVRTs']
  adsArgs,     \* the zoomSize/step keywords get_ads_vrts was called with
  vrt,         \* the raster container part of self (VRT)
  exception,   \* the exception that left __init__, "None" if none did
  returned,    \* TRUE once the caller holds the constructed instance
  log          \* the statements executed so far, in order

vars == <<pc, args, product, metaDict, scales, adsVRTs, adsArgs, vrt,
          exception, returned, log>>

----------------------------------------------------------------------------
(* Bounds of the explored inputs *)

\* longest list of auxiliary rasters get_ads_vrts returns
MaxAds == 4
\* longest table read_scaling_gads returns
MaxScales == 16

----------------------------------------------------------------------------
(* Program constants *)

\* type code the default-fill loop writes ("UInt16" in the source's comment)
GDT_UInt16 == 2
\* number of characters of self.product the check compares
PrefixLen == 9
\* default of the zoomSize parameter
DefaultZoomSize == 500
\* default of the step parameter
DefaultStep == 1
\* the explicit type code of the quality-flags entry
FlagsDataType == 1

\* the two recognized literals, as tuples of characters
MER_FRS_1 == <<"M","E","R","_","F","R","S","_","1">>
MER_RR__1 == <<"M","E","R","_","R","R","_","_","1">>

----------------------------------------------------------------------------
(* Inputs *)

Products ==
  { MER_FRS_1 \o <<"_","T","E","S","T">>,      \* "MER_FRS_1_TEST"
    MER_RR__1 \o <<"P">>,                      \* "MER_RR__1P"
    MER_FRS_1,                                 \* exactly the prefix
    <<"M","E","R","_","F","R","S","_","2","P">>,
    <<"M","E","R","_","R","R","_","_","2">>,
    <<"M","E","R","_","F","R","S","_">>,       \* 8 characters
    <<"M","E","R","_","R","R","_","1","_","_","1">>,
    <<"A","S","A","_","W","S","M","_","1","P">>,
    << >> }                                    \* ""

FileNames == {"MER.N1"}
ZoomSizes == {DefaultZoomSize, 250}
Steps == {DefaultStep, 2}

\* 1.0, 2.0, ..., n.0 in tenths
Ramp(n) == [i \in 1..n |-> 10 * i]
\* a table that is not increasing and has fractional values: (n+1-i).5
Desc(n) == [i \in 1..n |-> 10 * (n + 1 - i) + 5]
ScaleTables == {Ramp(n) : n \in 0..MaxScales} \cup {Desc(n) : n \in 0..MaxScales}

\* an auxiliary raster: its file name and the metadata of its band 1
AdsPool ==
  { [fileName |-> "/vsimem/ads0.vrt", name |-> "sun zenith angles", units |-> "deg"],
    [fileName |-> "/vsimem/ads1.vrt", name |-> "zonal winds", units |-> "m/s"] }

RECURSIVE SeqsUpTo(_, _)
SeqsUpTo(S, n) ==
  IF n = 0 THEN { << >> }
  ELSE LET shorter == SeqsUpTo(S, n - 1)
       IN  shorter \cup { Append(s, e) : s \in {t \in shorter : Len(t) = n - 1}, e \in S }

AdsResults == SeqsUpTo(AdsPool, MaxAds)

----------------------------------------------------------------------------
(* Pure helpers *)

Min(a, b) == IF a < b THEN a ELSE b

\* s[0:n] of Python: clamps to the length of s
Slice0(s, n) == SubSeq(s, 1, Min(n, Len(s)))

\* str(x) for a float x kept in tenths
PyStr(x) == ToString(x \div 10) \o "." \o ToString(x % 10)

\* d[k] = v
SetItem(d, k, v) == (k :> v) @@ d

----------------------------------------------------------------------------
(* The static table and the loops over it *)

\* variant: the source band counted from 0
RadianceBandZeroBased(fileName, band, wavelength) ==
  [src |-> [SourceFilename |-> fileName, SourceBand |-> band - 1],
   dst |-> [wkv |-> "toa_outgoing_spectral_radiance", wavelength |-> wavelength]]

\* one radiance entry of the literal list
RadianceBand(fileName, band, wavelength) ==
  [src |-> [SourceFilename |-> fileName, SourceBand |-> band],
   dst |-> [wkv |-> "toa_outgoing_spectral_radiance", wavelength |-> wavelength]]

\* the last entry of the literal list
FlagsBand(fileName) ==
  [src |-> [SourceFilename |-> fileName, SourceBand |-> 16, DataType |-> FlagsDataType],
   dst |-> [wkv |-> "quality_flags", suffix |-> "l1"]]

\* metaDict = [ ... ]
StaticMetaDict(fileName) ==
  << RadianceBand(fileName, 1, "413"),
     RadianceBand(fileName, 2, "443"),
     RadianceBand(fileName, 3, "490"),
     RadianceBand(fileName, 4, "510"),
     RadianceBand(fileName, 5, "560"),
     RadianceBand(fileName, 6, "620"),
     RadianceBand(fileName, 7, "665"),
     RadianceBand(fileName, 8, "681"),
     RadianceBand(fileName, 9, "709"),
     RadianceBand(fileName, 10, "753"),
     RadianceBand(fileName, 11, "761"),
     RadianceBand(fileName, 12, "778"),
     RadianceBand(fileName, 13, "864"),
     RadianceBand(fileName, 14, "849"),
     RadianceBand(fileName, 15, "900"),
     FlagsBand(fileName) >>

\* variant: the default overwrites an explicit type
FillDataTypeAlways(bandDict) ==
  [bandDict EXCEPT !.src = SetItem(@, "DataType", GDT_UInt16)]

\* variant: the default is written under the wrong test ('DataType' in ...)
FillDataTypeInverted(bandDict) ==
  IF "DataType" \in DOMAIN bandDict.src
  THEN [bandDict EXCEPT !.src = SetItem(@, "DataType", GDT_UInt16)]
  ELSE bandDict

\* if 'DataType' not in bandDict['src']: bandDict['src']['DataType'] = 2
FillDataType(bandDict) ==
  IF "DataType" \notin DOMAIN bandDict.src
  THEN [bandDict EXCEPT !.src = SetItem(@, "DataType", GDT_UInt16)]
  ELSE bandDict

\* variant: the suffix is copied from the tag instead of the wavelength
FillSuffixFromTag(bandDict) ==
  IF "wavelength" \in DOMAIN bandDict.dst
  THEN [bandDict EXCEPT !.dst = SetItem(@, "suffix", bandDict.dst.wkv)]
  ELSE bandDict

\* if 'wavelength' in bandDict['dst']: bandDict['dst']['suffix'] = bandDict['dst']['wavelength']
FillSuffix(bandDict) ==
  IF "wavelength" \in DOMAIN bandDict.dst
  THEN [bandDict EXCEPT !.dst = SetItem(@, "suffix", bandDict.dst.wavelength)]
  ELSE bandDict

\* for bandDict in metaDict: ...
FillLoop(md) == [i \in 1..Len(md) |-> FillSuffix(FillDataType(md[i]))]

\* variant: the value is truncated before it is encoded, str(int(scales[i]))
ScaleRatioAtInt(sc, i) == ToString(sc[i + 1] \div 10)

\* the value the scale loop stores for its 0-based index i: str(scales[i])
ScaleRatioAt(sc, i) == PyStr(sc[i + 1])

\* for i, bandDict in enumerate(metaDict[:-1]): bandDict['src']['ScaleRatio'] = str(scales[i])
\* run for the first n iterations (all of them, or those before scales[i] fails)
ScaleLoop(md, sc, n) ==
  [j \in 1..Len(md) |->
     IF j <= n /\ j <= Len(md) - 1
     THEN [md[j] EXCEPT !.src = SetItem(@, "ScaleRatio", ScaleRatioAt(sc, j - 1))]
     ELSE md[j]]

\* variant: name and units read from each other's metadata item
AdsBandDictSwapped(adsVRT) ==
  [src |-> [SourceFilename |-> adsVRT.fileName, SourceBand |-> 1],
   dst |-> [name |-> adsVRT.units, units |-> adsVRT.name]]

\* the descriptor appended for one auxiliary raster
AdsBandDict(adsVRT) ==
  [src |-> [SourceFilename |-> adsVRT.fileName, SourceBand |-> 1],
   dst |-> [name |-> adsVRT.name, units |-> adsVRT.units]]

\* for adsVRT in self.subVRTs['adsVRTs']: metaDict.append(...)
AppendLoop(md, ads) == md \o [i \in 1..Len(ads) |-> AdsBandDict(ads[i])]

\* variant: the two comparisons joined by "or"
IsMerisL1Or(p) ==
  ~ (Slice0(p, PrefixLen) # MER_FRS_1 \/ Slice0(p, PrefixLen) # MER_RR__1)

\* the product check of the constructor
IsMerisL1(p) ==
  ~ (Slice0(p, PrefixLen) # MER_FRS_1 /\ Slice0(p, PrefixLen) # MER_RR__1)

\* variant: the parameters' defaults are passed on, not the arguments
AdsKeywordsDefault(zoomSize, step) == [zoomSize |-> DefaultZoomSize, step |-> DefaultStep]

\* the keywords handed to get_ads_vrts and add_geolocation_from_ads
AdsKeywords(zoomSize, step) == [zoomSize |-> zoomSize, step |-> step]

----------------------------------------------------------------------------
(* The constructor, statement by statement *)

EmptyVRT == [initialized |-> FALSE, created |-> FALSE, bands |-> << >>,
             time |-> FALSE, geolocation |-> << >>]

NoArgs == [fileName |-> "", gdalMetadata |-> [MPH_PRODUCT |-> << >>],
           geolocation |-> FALSE, zoomSize |-> DefaultZoomSize, step |-> DefaultStep]

Init ==
  /\ pc = "idle"
  /\ args = NoArgs
  /\ product = << >>
  /\ metaDict = << >>
  /\ scales = << >>
  /\ adsVRTs = << >>
  /\ adsArgs = << >>
  /\ vrt = EmptyVRT
  /\ exception = "None"
  /\ returned = FALSE
  /\ log = << >>

\* variant: the exception is swallowed and the instance handed out as it is
PropagateSwallowed(err) ==
  /\ pc' = "done"
  /\ exception' = "None"
  /\ returned' = TRUE

\* an exception raised inside __init__ is caught nowhere in it: it leaves
\* the constructor and the caller gets no instance
Propagate(err) ==
  /\ pc' = "raised"
  /\ exception' = err
  /\ returned' = FALSE

\* the end of __init__ is reached: the caller gets the instance
Return ==
  /\ pc' = "done"
  /\ returned' = TRUE
  /\ UNCHANGED exception

Goto(next) ==
  /\ pc' = next
  /\ UNCHANGED <<exception, returned>>

\* Mapper(fileName, gdalDataset, gdalMetadata, geolocation, zoomSize, step)
Call ==
  /\ pc = "idle"
  /\ \E f \in FileNames, p \in Products, g \in BOOLEAN, z \in ZoomSizes, s \in Steps :
       args' = [fileName |-> f, gdalMetadata |-> [MPH_PRODUCT |-> p],
                geolocation |-> g, zoomSize |-> z, step |-> s]
  /\ Goto("envisat_init")
  /\ UNCHANGED <<product, metaDict, scales, adsVRTs, adsArgs, vrt, log>>

\* Envisat.__init__(self, fileName, gdalMetadata)
EnvisatInit ==
  /\ pc = "envisat_init"
  /\ product' = args.gdalMetadata.MPH_PRODUCT
  /\ log' = Append(log, "Envisat.__init__")
  /\ Goto("check")
  /\ UNCHANGED <<args, metaDict, scales, adsVRTs, adsArgs, vrt>>

\* variant: the literal list is built before the check
RejectLate ==
  /\ pc = "check"
  /\ ~ IsMerisL1(product)
  /\ metaDict' = StaticMetaDict(args.fileName)
  /\ log' = Append(log, "check")
  /\ Propagate("WrongMapperError")
  /\ UNCHANGED <<args, product, scales, adsVRTs, adsArgs, vrt>>

\* if self.product[0:9] != ... : raise WrongMapperError
Reject ==
  /\ pc = "check"
  /\ ~ IsMerisL1(product)
  /\ log' = Append(log, "check")
  /\ Propagate("WrongMapperError")
  /\ UNCHANGED <<args, product, metaDict, scales, adsVRTs, adsArgs, vrt>>

\* the check passes and the literal list is built
BuildMetaDict ==
  /\ pc = "check"
  /\ IsMerisL1(product)
  /\ metaDict' = StaticMetaDict(args.fileName)
  /\ log' = log \o <<"check", "metaDict">>
  /\ Goto("fill")
  /\ UNCHANGED <<args, product, scales, adsVRTs, adsArgs, vrt>>

\* add DataType into 'src' and suffix into 'dst'
FillDefaults ==
  /\ pc = "fill"
  /\ metaDict' = FillLoop(metaDict)
  /\ log' = Append(log, "fill")
  /\ Goto("read_scales")
  /\ UNCHANGED <<args, product, scales, adsVRTs, adsArgs, vrt>>

\* scales = self.read_scaling_gads(range(7, 22)) returns a table
ReadScalingGads ==
  /\ pc = "read_scales"
  /\ \E t \in ScaleTables : scales' = t
  /\ log' = Append(log, "read_scaling_gads")
  /\ Goto("assign_scales")
  /\ UNCHANGED <<args, product, metaDict, adsVRTs, adsArgs, vrt>>

\* scales = self.read_scaling_gads(range(7, 22)) raises
ReadScalingGadsFails ==
  /\ pc = "read_scales"
  /\ log' = Append(log, "read_scaling_gads")
  /\ Propagate("GadsError")
  /\ UNCHANGED <<args, product, metaDict, scales, adsVRTs, adsArgs, vrt>>

\* the scale loop runs over metaDict[:-1] to its end
AssignScales ==
  /\ pc = "assign_scales"
  /\ Len(scales) >= Len(metaDict) - 1
  /\ metaDict' = ScaleLoop(metaDict, scales, Len(metaDict) - 1)
  /\ log' = Append(log, "ScaleRatio")
  /\ Goto("get_ads")
  /\ UNCHANGED <<args, product, scales, adsVRTs, adsArgs, vrt>>

\* the scale loop stops at the first i with no scales[i]: IndexError
AssignScalesIndexError ==
  /\ pc = "assign_scales"
  /\ Len(scales) < Len(metaDict) - 1
  /\ metaDict' = ScaleLoop(metaDict, scales, Len(scales))
  /\ log' = Append(log, "ScaleRatio")
  /\ Propagate("IndexError")
  /\ UNCHANGED <<args, product, scales, adsVRTs, adsArgs, vrt>>

\* self.subVRTs = {'adsVRTs': self.get_ads_vrts(gdalDataset, [...], zoomSize=zoomSize, step=step)}
GetAdsVrts ==
  /\ pc = "get_ads"
  /\ adsArgs' = << AdsKeywords(args.zoomSize, args.step) >>
  /\ \E r \in AdsResults : adsVRTs' = r
  /\ log' = Append(log, "get_ads_vrts")
  /\ Goto("append_ads")
  /\ UNCHANGED <<args, product, metaDict, scales, vrt>>

\* get_ads_vrts raises
GetAdsVrtsFails ==
  /\ pc = "get_ads"
  /\ adsArgs' = << AdsKeywords(args.zoomSize, args.step) >>
  /\ log' = Append(log, "get_ads_vrts")
  /\ Propagate("AdsError")
  /\ UNCHANGED <<args, product, metaDict, scales, adsVRTs, vrt>>

\* add bands from the ADS VRTs
AppendAdsBands ==
  /\ pc = "append_ads"
  /\ metaDict' = AppendLoop(metaDict, adsVRTs)
  /\ log' = Append(log, "append")
  /\ Goto("vrt_init")
  /\ UNCHANGED <<args, product, scales, adsVRTs, adsArgs, vrt>>

\* VRT.__init__(self, gdalDataset)
VRTInit ==
  /\ pc = "vrt_init"
  /\ vrt' = [vrt EXCEPT !.initialized = TRUE]
  /\ log' = Append(log, "VRT.__init__")
  /\ Goto("create_bands")
  /\ UNCHANGED <<args, product, metaDict, scales, adsVRTs, adsArgs>>

\* VRT.__init__ raises
VRTInitFails ==
  /\ pc = "vrt_init"
  /\ log' = Append(log, "VRT.__init__")
  /\ Propagate("VRTError")
  /\ UNCHANGED <<args, product, metaDict, scales, adsVRTs, adsArgs, vrt>>

\* self._create_bands(metaDict)
CreateBands ==
  /\ pc = "create_bands"
  /\ vrt' = [vrt EXCEPT !.created = TRUE, !.bands = metaDict]
  /\ log' = Append(log, "_create_bands")
  /\ Goto("set_time")
  /\ UNCHANGED <<args, product, metaDict, scales, adsVRTs, adsArgs>>

\* _create_bands raises after registering some of the bands
CreateBandsFails ==
  /\ pc = "create_bands"
  /\ \E n \in 0..(Len(metaDict) - 1) :
       vrt' = [vrt EXCEPT !.bands = SubSeq(metaDict, 1, n)]
  /\ log' = Append(log, "_create_bands")
  /\ Propagate("BandError")
  /\ UNCHANGED <<args, product, metaDict, scales, adsVRTs, adsArgs>>

\* self._set_envisat_time(gdalMetadata)
SetEnvisatTime ==
  /\ pc = "set_time"
  /\ vrt' = [vrt EXCEPT !.time = TRUE]
  /\ log' = Append(log, "_set_envisat_time")
  /\ Goto("geolocation")
  /\ UNCHANGED <<args, product, metaDict, scales, adsVRTs, adsArgs>>

\* _set_envisat_time raises (the time fields are absent)
SetEnvisatTimeFails ==
  /\ pc = "set_time"
  /\ log' = Append(log, "_set_envisat_time")
  /\ Propagate("TimeError")
  /\ UNCHANGED <<args, product, metaDict, scales, adsVRTs, adsArgs, vrt>>

\* if geolocation: self.add_geolocation_from_ads(gdalDataset, zoomSize=zoomSize, step=step)
AddGeolocation ==
  /\ pc = "geolocation"
  /\ args.geolocation
  /\ vrt' = [vrt EXCEPT !.geolocation = << AdsKeywords(args.zoomSize, args.step) >>]
  /\ log' = Append(log, "add_geolocation_from_ads")
  /\ Return
  /\ UNCHANGED <<args, product, metaDict, scales, adsVRTs, adsArgs>>

\* add_geolocation_from_ads raises
AddGeolocationFails ==
  /\ pc = "geolocation"
  /\ args.geolocation
  /\ log' = Append(log, "add_geolocation_from_ads")
  /\ Propagate("GeolocationError")
  /\ UNCHANGED <<args, product, metaDict, scales, adsVRTs, adsArgs, vrt>>

\* geolocation is false: __init__ ends
SkipGeolocation ==
  /\ pc = "geolocation"
  /\ ~ args.geolocation
  /\ Return
  /\ UNCHANGED <<args, product, metaDict, scales, adsVRTs, adsArgs, vrt, log>>

Next ==
  \/ Call
  \/ EnvisatInit
  \/ Reject
  \/ BuildMetaDict
  \/ FillDefaults
  \/ ReadScalingGads
  \/ ReadScalingGadsFails
  \/ AssignScales
  \/ AssignScalesIndexError
  \/ GetAdsVrts
  \/ GetAdsVrtsFails
  \/ AppendAdsBands
  \/ VRTInit
  \/ VRTInitFails
  \/ CreateBands
  \/ CreateBandsFails
  \/ SetEnvisatTime
  \/ SetEnvisatTimeFails
  \/ AddGeolocation
  \/ AddGeolocationFails
  \/ SkipGeolocation

Spec == Init /\ [][Next]_vars

TypeOK ==
  /\ pc \in {"idle", "envisat_init", "check", "fill", "read_scales", "assign_scales",
             "get_ads", "append_ads", "vrt_init", "create_bands", "set_time",
             "geolocation", "done", "raised"}
  /\ returned \in BOOLEAN
  /\ Len(metaDict) \in {0} \cup (16..(16 + MaxAds))

----------------------------------------------------------------------------
(* Properties *)

Range(q) == { q[i] : i \in 1..Len(q) }

Has(d, k) == k \in DOMAIN d

\* the identifier found in the metadata the constructor was called with
Identifier == args.gdalMetadata.MPH_PRODUCT

\* p starts with the 9 characters of lit
StartsWith(p, lit) == Len(p) >= 9 /\ \A i \in 1..9 : p[i] = lit[i]

Recognized(p) ==
  \/ StartsWith(p, <<"M","E","R","_","F","R","S","_","1">>)
  \/ StartsWith(p, <<"M","E","R","_","R","R","_","_","1">>)

\* the descriptor list handed to the container, once all of it is registered
Registered == vrt.created

\* C1: once the product check has run, WrongMapperError has been raised
\* exactly when the identifier does not start with MER_FRS_1 or MER_RR__1
\* (a shorter identifier included); it is never raised for an identifier
\* that starts with one of them, and never before the check.
C1_RecognitionFailure ==
  /\ "check" \in Range(log) =>
       (exception = "WrongMapperError" <=> ~ Recognized(Identifier))
  /\ exception = "WrongMapperError" => "check" \in Range(log)
  /\ Recognized(Identifier) => exception # "WrongMapperError"

C1_Witness ==
  /\ exception = "WrongMapperError"
  /\ Len(Identifier) = 8

\* C2: when WrongMapperError is raised, only Envisat.__init__ and the check
\* have run: no descriptor exists, no scale table was read, no auxiliary
\* grid was requested, the container is untouched (not initialized, no band,
\* no time, no geolocation) and no instance is handed out.
C2_RejectionBeforeAnyWork ==
  exception = "WrongMapperError" =>
    /\ log = <<"Envisat.__init__", "check">>
    /\ metaDict = << >>
    /\ scales = << >>
    /\ adsVRTs = << >>
    /\ adsArgs = << >>
    /\ vrt = EmptyVRT
    /\ ~ returned

C2_Witness ==
  /\ exception = "WrongMapperError"
  /\ Len(Identifier) > 9
  /\ Identifier[1] = "M"

Wavelengths ==
  <<"413", "443", "490", "510", "560", "620", "665", "681", "709", "753",
    "761", "778", "864", "849", "900">>

StaticInOrder(md) ==
  /\ Len(md) >= 16
  /\ \A i \in 1..15 :
       /\ md[i].src.SourceBand = i
       /\ md[i].dst.wkv = "toa_outgoing_spectral_radiance"
       /\ md[i].dst.wavelength = Wavelengths[i]
  /\ md[16].src.SourceBand = 16
  /\ md[16].dst.wkv = "quality_flags"
  /\ ~ Has(md[16].dst, "wavelength")

\* C4: from the moment the literal list is built, its first 16 entries are
\* the static bands in fixed order (source band i, radiance tag and the i-th
\* wavelength for i in 1..15; source band 16, quality_flags and no
\* wavelength for the 16th), through every later step, and so are the first
\* 16 descriptors registered with the container.
C4_StaticBandsFixed ==
  /\ "metaDict" \in Range(log) => StaticInOrder(metaDict)
  /\ Registered => StaticInOrder(vrt.bands)

C4_Witness ==
  /\ pc = "done"
  /\ Len(vrt.bands) = 18
  /\ "ScaleRatio" \in DOMAIN vrt.bands[1].src

RampStrings ==
  <<"1.0", "2.0", "3.0", "4.0", "5.0", "6.0", "7.0", "8.0", "9.0", "10.0",
    "11.0", "12.0", "13.0", "14.0", "15.0">>

\* C5: in the registered list, the ScaleRatio of the i-th descriptor,
\* i in 1..15, is the string form of the i-th value of the table that was
\* read; with the values 1.0..15.0 the ratios are "1.0".."15.0" and band 3
\* has wavelength "490", suffix "490" and ScaleRatio "3.0".
C5_ScaleRatios ==
  Registered =>
    /\ \A i \in 1..15 : vrt.bands[i].src.ScaleRatio = PyStr(scales[i])
    /\ SubSeq(scales, 1, 15) = [i \in 1..15 |-> 10 * i] =>
         /\ \A i \in 1..15 : vrt.bands[i].src.ScaleRatio = RampStrings[i]
         /\ vrt.bands[3].dst.wavelength = "490"
         /\ vrt.bands[3].dst.suffix = "490"
         /\ vrt.bands[3].src.ScaleRatio = "3.0"

C5_Witness ==
  /\ Registered
  /\ Identifier = <<"M","E","R","_","F","R","S","_","1","_","T","E","S","T">>
  /\ scales = [i \in 1..15 |-> 10 * i]

\* C6: in the registered list every descriptor with a wavelength has a
\* suffix equal to it, the 15 radiance suffixes are pairwise distinct, and
\* the quality-flags descriptor has the suffix "l1".
C6_SuffixMirrorsWavelength ==
  Registered =>
    /\ \A i \in 1..Len(vrt.bands) :
         Has(vrt.bands[i].dst, "wavelength") =>
           /\ Has(vrt.bands[i].dst, "suffix")
           /\ vrt.bands[i].dst.suffix = vrt.bands[i].dst.wavelength
    /\ \A i, j \in 1..15 :
         i # j => vrt.bands[i].dst.suffix # vrt.bands[j].dst.suffix
    /\ vrt.bands[16].dst.suffix = "l1"

C6_Witness ==
  /\ Registered
  /\ returned
  /\ Len(vrt.bands) = 16

\* C7: a finished construction has a geolocation array exactly when it was
\* called with geolocation=True; an attached array was computed with the
\* zoomSize and step of the call, the same the auxiliary grids were asked
\* with, and the bands were registered and the time set before it.
C7_Geolocation ==
  /\ pc = "done" => (vrt.geolocation # << >> <=> args.geolocation)
  /\ ~ args.geolocation => vrt.geolocation = << >>
  /\ vrt.geolocation # << >> =>
       /\ Len(vrt.geolocation) = 1
       /\ vrt.geolocation[1].zoomSize = args.zoomSize
       /\ vrt.geolocation[1].step = args.step
       /\ adsArgs = vrt.geolocation
       /\ vrt.created
       /\ vrt.time
       /\ log[Len(log)] = "add_geolocation_from_ads"
       /\ \E i, j \in 1..Len(log) :
            /\ i < j
            /\ j < Len(log)
            /\ log[i] = "_create_bands"
            /\ log[j] = "_set_envisat_time"

C7_Witness ==
  /\ pc = "done"
  /\ args.geolocation
  /\ vrt.geolocation # << >>
  /\ args.zoomSize # DefaultZoomSize
  /\ args.step # DefaultStep

\* C8 as stated: every registered descriptor, static or auxiliary, has a
\* DataType, and every one but the quality-flags descriptor has the code 2.
C8_EveryDescriptorTyped ==
  Registered =>
    \A i \in 1..Len(vrt.bands) :
      /\ Has(vrt.bands[i].src, "DataType")
      /\ i # 16 => vrt.bands[i].src.DataType = 2

\* C8 amended: every static descriptor (the first 16) has a DataType, the
\* 15 radiance descriptors, which supply none, have the default code 2; the
\* auxiliary descriptors are appended after the default-fill step and are
\* registered without a DataType.
C8_StaticDescriptorsTyped ==
  Registered =>
    /\ \A i \in 1..16 : Has(vrt.bands[i].src, "DataType")
    /\ \A i \in 1..15 : vrt.bands[i].src.DataType = 2
    /\ \A i \in 17..Len(vrt.bands) : ~ Has(vrt.bands[i].src, "DataType")

C8_Witness ==
  /\ Registered
  /\ Len(vrt.bands) > 16
  /\ Len(adsVRTs) > 0

\* C9: with k auxiliary rasters returned, the registered list has 16 + k
\* descriptors: the 16 static ones (bands 1..16 of the product file) first,
\* then one per raster in the order returned, with source band 1 of the
\* raster's own file and the raster band's name and units.
C9_AuxiliaryDescriptors ==
  Registered =>
    /\ Len(vrt.bands) = 16 + Len(adsVRTs)
    /\ \A i \in 1..16 :
         /\ vrt.bands[i].src.SourceFilename = args.fileName
         /\ vrt.bands[i].src.SourceBand = i
         /\ ~ Has(vrt.bands[i].dst, "name")
    /\ \A j \in 1..Len(adsVRTs) :
         /\ vrt.bands[16 + j].src.SourceFilename = adsVRTs[j].fileName
         /\ vrt.bands[16 + j].src.SourceBand = 1
         /\ vrt.bands[16 + j].dst.name = adsVRTs[j].name
         /\ vrt.bands[16 + j].dst.units = adsVRTs[j].units
         /\ DOMAIN vrt.bands[16 + j].dst = {"name", "units"}

C9_Witness ==
  /\ Registered
  /\ Len(adsVRTs) = 3
  /\ adsVRTs[1] # adsVRTs[2]
  /\ adsVRTs[1] = adsVRTs[3]

\* the call during which each failure arises
RaisedBy ==
  [GadsError |-> "read_scaling_gads", IndexError |-> "ScaleRatio",
   AdsError |-> "get_ads_vrts", VRTError |-> "VRT.__init__",
   BandError |-> "_create_bands", TimeError |-> "_set_envisat_time",
   GeolocationError |-> "add_geolocation_from_ads"]

\* C10: a failure after the check leaves the constructor at the statement
\* where it arose (nothing runs after it, nothing runs twice) and the
\* caller gets no instance; an instance the caller gets has every
\* descriptor registered (the 16 static and one per auxiliary raster), the
\* time set and, if asked for, the geolocation attached.
C10_NoPartialResult ==
  /\ exception \in DOMAIN RaisedBy =>
       /\ pc = "raised"
       /\ ~ returned
       /\ log[Len(log)] = RaisedBy[exception]
  /\ \A i, j \in 1..Len(log) : i # j => log[i] # log[j]
  /\ returned =>
       /\ exception = "None"
       /\ vrt.initialized
       /\ vrt.created
       /\ vrt.bands = metaDict
       /\ Len(vrt.bands) = 16 + Len(adsVRTs)
       /\ vrt.time
       /\ args.geolocation => vrt.geolocation # << >>

C10_Witness ==
  /\ exception = "TimeError"
  /\ vrt.created
  /\ Len(vrt.bands) > 16
  /\ ~ returned

====
